---- MODULE Spec2Model ----
(***************************************************************************)
(* The /items resource of nestjs-crud-api: ItemsController in front of a   *)
(* TypeORM Repository<Item> on the sqlite driver that AppModule selects.   *)
(* Handlers with one repository call are one step; the update handler is   *)
(* two steps (update-by-key, then findOne), with other requests free to    *)
(* run between them.  Spec is every interleaving of requests; SerialSpec   *)
(* handles one request at a time and logs the request bodies.              *)
(***************************************************************************)
EXTENDS Integers, Sequences, FiniteSets, Bags

\* ---------------------------------------------------------------- bounds
MaxId == 2
MaxInflight == 1

Ids == 1..MaxId
Names == {"a"}
Descriptions == {"x"}
Quantities == {0, 5}

\* ------------------------------------------------------------ data model
\* A JSON property of a request body: absent (<<>>) or present (<<v>>).
Opt(S) == {<<>>} \cup {<<v>> : v \in S}

\* The request body bound to `item: Item`: any subset of the entity's
\* properties, the id included.
Item == [id : Opt(Ids), name : Opt(Names),
         description : Opt(Descriptions), quantity : Opt(Quantities)]

NoItem == [id |-> <<>>, name |-> <<>>, description |-> <<>>, quantity |-> <<>>]

\* A row of table "item": @PrimaryGeneratedColumn id, and three @Column()
\* columns, which TypeORM declares NOT NULL.
Row == [id : Ids, name : Names, description : Descriptions, quantity : Quantities]

Fields == {"id", "name", "description", "quantity"}
Columns == {"name", "description", "quantity"}

Has(p, f) == p[f] # <<>>

VARIABLES store, seq, pending, last
vars == <<store, seq, pending, last>>

\* ------------------------------------------------------ store primitives
Max(a, b) == IF a >= b THEN a ELSE b

IdsOf(rows) == {r.id : r \in rows}

RowsWithId(rows, id) == {r \in rows : r.id = id}

MaxRowid(rows) == IF rows = {} THEN 0
                  ELSE CHOOSE m \in IdsOf(rows) : \A k \in IdsOf(rows) : k <= m

\* sqlite AUTOINCREMENT: one more than the larger of the largest rowid in
\* the table and the largest rowid ever generated (sqlite_sequence).
NewRowid(rows, sq) == Max(MaxRowid(rows), sq) + 1

\* The columns named in the body overwrite the row's, the others stay.
Merge(r, p) ==
  [id          |-> IF Has(p, "id") THEN p.id[1] ELSE r.id,
   name        |-> IF Has(p, "name") THEN p.name[1] ELSE r.name,
   description |-> IF Has(p, "description") THEN p.description[1] ELSE r.description,
   quantity    |-> IF Has(p, "quantity") THEN p.quantity[1] ELSE r.quantity]

\* ------------------------------------------------- repository operations
\* Repository.find(): every row, in rowid order.
RECURSIVE RepoFind(_)
RepoFind(rows) ==
  IF rows = {} THEN <<>>
  ELSE LET m == CHOOSE r \in rows : \A q \in rows : r.id <= q.id
       IN  <<m>> \o RepoFind(rows \ {m})

\* A findOne that falls back to the first row of the table when its key
\* matches none (what findOne does when handed no usable key).
RepoFindOneOrFirst(rows, id) ==
  LET match == RowsWithId(rows, id)
  IN  IF match # {} THEN <<CHOOSE r \in match : TRUE>>
      ELSE IF rows = {} THEN <<>>
      ELSE <<CHOOSE r \in rows : \A q \in rows : r.id <= q.id>>

\* Repository.findOne(id): the row with that key, or undefined.
RepoFindOne(rows, id) ==
  LET match == RowsWithId(rows, id)
  IN  IF match = {} THEN <<>> ELSE <<CHOOSE r \in match : TRUE>>

\* Repository.save(item): an item whose id names a stored row is updated
\* in place with the properties it carries; any other item is inserted,
\* with its own id when it carries one (the sqlite driver inserts the id
\* column) and a generated one otherwise.  A missing column is NULL and
\* violates NOT NULL.
RepoSave(rows, sq, item) ==
  IF Has(item, "id") /\ RowsWithId(rows, item.id[1]) # {}
  THEN LET match == RowsWithId(rows, item.id[1])
       IN  [status |-> "ok",
            rows   |-> (rows \ match) \cup {Merge(r, item) : r \in match},
            seq    |-> sq,
            rid    |-> item.id[1]]
  ELSE IF \E f \in Columns : ~Has(item, f)
  THEN [status |-> "error", rows |-> rows, seq |-> sq, rid |-> 0]
  ELSE LET nid == IF Has(item, "id") THEN item.id[1] ELSE NewRowid(rows, sq)
       IN  [status |-> "ok",
            rows   |-> rows \cup {[id |-> nid, name |-> item.name[1],
                                   description |-> item.description[1],
                                   quantity |-> item.quantity[1]]},
            seq    |-> Max(sq, nid),
            rid    |-> nid]

\* An update-by-key that rejects when no row has the key.
RepoUpdateOrFail(rows, id, item) ==
  LET match == RowsWithId(rows, id)
      rest  == rows \ match
      moved == {Merge(r, item) : r \in match}
  IN  IF item = NoItem \/ match = {} \/ \E m \in moved : RowsWithId(rest, m.id) # {}
      THEN [status |-> "error", rows |-> rows, affected |-> 0]
      ELSE [status |-> "ok", rows |-> rest \cup moved,
            affected |-> Cardinality(match)]

\* An update whose UPDATE statement lost its WHERE clause.
RepoUpdateNoWhere(rows, id, item) ==
  IF item = NoItem
  THEN [status |-> "error", rows |-> rows, affected |-> 0]
  ELSE [status |-> "ok", rows |-> {Merge(r, item) : r \in rows},
        affected |-> Cardinality(RowsWithId(rows, id))]

\* Repository.update(id, item): UPDATE item SET <the properties of the
\* body, the id column included> WHERE id = :id.  An empty body is refused
\* (UpdateValuesMissingError); a new id that another row holds violates the
\* primary key.  sqlite_sequence is not touched by UPDATE.
RepoUpdate(rows, id, item) ==
  IF item = NoItem
  THEN [status |-> "error", rows |-> rows, affected |-> 0]
  ELSE LET match == RowsWithId(rows, id)
           rest  == rows \ match
           moved == {Merge(r, item) : r \in match}
       IN  IF \E m \in moved : RowsWithId(rest, m.id) # {}
           THEN [status |-> "error", rows |-> rows, affected |-> 0]
           ELSE [status |-> "ok", rows |-> rest \cup moved,
                 affected |-> Cardinality(match)]

\* A delete-by-key that rejects when no row has the key.
RepoDeleteOrFail(rows, id) ==
  LET match == RowsWithId(rows, id)
  IN  [status |-> IF match = {} THEN "error" ELSE "ok",
       rows |-> rows \ match, affected |-> Cardinality(match)]

\* A delete-by-key that reports the rows it matched and leaves them stored.
RepoDeleteKeep(rows, id) ==
  LET match == RowsWithId(rows, id)
  IN  [status |-> "ok", rows |-> rows, affected |-> Cardinality(match)]

\* Repository.delete(id): DELETE FROM item WHERE id = :id; no row is no error.
RepoDelete(rows, id) ==
  LET match == RowsWithId(rows, id)
  IN  [status |-> "ok", rows |-> rows \ match, affected |-> Cardinality(match)]

\* ---------------------------------------------------------------- routes
\* The routes the decorators of ItemsController register under /items;
\* withId tells whether the path has the :id segment.
Route(method, withId) ==
  CASE method = "GET"    /\ ~withId -> "findAll"
    [] method = "POST"   /\ ~withId -> "create"
    [] method = "PUT"    /\ withId  -> "update"
    [] method = "DELETE" /\ withId  -> "delete"
    [] OTHER -> "none"

\* ------------------------------------------------------------------ Init
\* store: the rows of table item; seq: sqlite_sequence of the table;
\* pending: the update requests between their two repository calls, each
\* with the number of rows its UPDATE matched; last: the latest handler
\* step: the request (op, path id, logged body p) and its outcome (status,
\* rows matched, id of the saved item, rows read).
Step(op, id, p, status, affected, rid, found) ==
  [op |-> op, id |-> id, p |-> p, status |-> status,
   affected |-> affected, rid |-> rid, found |-> found]

Init ==
  /\ store = {}
  /\ seq = 0
  /\ pending = EmptyBag
  /\ last = Step("none", 0, NoItem, "ok", 0, 0, <<>>)

\* --------------------------------------------------------------- actions
\* In each handler with a body, log is what the request log keeps of the
\* body: the body itself in SerialSpec, nothing (NoItem) in Spec.

\* GET /items
FindAll ==
  /\ Route("GET", FALSE) = "findAll"
  /\ last' = Step("findAll", 0, NoItem, "ok", 0, 0, RepoFind(store))
  /\ UNCHANGED <<store, seq, pending>>

\* POST /items
Create(item, log) ==
  LET res == RepoSave(store, seq, item)
  IN  /\ Route("POST", FALSE) = "create"
      /\ res.seq <= MaxId
      /\ store' = res.rows
      /\ seq' = res.seq
      /\ last' = Step("create", 0, log, res.status, 0, res.rid, <<>>)
      /\ UNCHANGED pending

\* PUT /items/:id, first call: await this.itemRepository.update(id, item).
\* A rejected promise ends the handler with the framework's 500 response.
UpdateWrite(id, item, log) ==
  LET res == RepoUpdate(store, id, item)
  IN  /\ Route("PUT", TRUE) = "update"
      /\ BagCardinality(pending) < MaxInflight
      /\ store' = res.rows
      /\ pending' = IF res.status = "ok"
                    THEN pending (+) SetToBag({[id |-> id, affected |-> res.affected]})
                    ELSE pending
      /\ last' = Step("updateWrite", id, log, res.status, res.affected, 0, <<>>)
      /\ UNCHANGED seq

\* PUT /items/:id, second call: return this.itemRepository.findOne(id).
UpdateRead(e) ==
  /\ BagIn(e, pending)
  /\ pending' = pending (-) SetToBag({e})
  /\ last' = Step("updateRead", e.id, NoItem, "ok", e.affected, 0,
                  RepoFindOne(store, e.id))
  /\ UNCHANGED <<store, seq>>

\* DELETE /items/:id
Delete(id) ==
  LET res == RepoDelete(store, id)
  IN  /\ Route("DELETE", TRUE) = "delete"
      /\ store' = res.rows
      /\ last' = Step("delete", id, NoItem, res.status, res.affected, 0, <<>>)
      /\ UNCHANGED <<seq, pending>>

\* GET /items/:id: no handler is registered for it, the framework answers 404.
GetOne(id) ==
  /\ Route("GET", TRUE) = "none"
  /\ last' = Step("getOne", id, NoItem, "error", 0, 0, <<>>)
  /\ UNCHANGED <<store, seq, pending>>

\* Requests are dispatched concurrently: any handler step at any time.
Next ==
  \/ FindAll
  \/ \E item \in Item : Create(item, NoItem)
  \/ \E id \in Ids, item \in Item : UpdateWrite(id, item, NoItem)
  \/ \E e \in BagToSet(pending) : UpdateRead(e)
  \/ \E id \in Ids : Delete(id)
  \/ \E id \in Ids : GetOne(id)

Spec == Init /\ [][Next]_vars

\* One request at a time: a request starts only when no update is between
\* its two calls.
SerialNext ==
  \/ pending = EmptyBag /\ FindAll
  \/ pending = EmptyBag /\ \E item \in Item : Create(item, item)
  \/ pending = EmptyBag /\ \E id \in Ids, item \in Item : UpdateWrite(id, item, item)
  \/ \E e \in BagToSet(pending) : UpdateRead(e)
  \/ pending = EmptyBag /\ \E id \in Ids : Delete(id)
  \/ pending = EmptyBag /\ \E id \in Ids : GetOne(id)

SerialSpec == Init /\ [][SerialNext]_vars

\* ================================================================ claims
\* The rows a list() of the given table returns whose id is id.
ListedAt(rows, id) ==
  {i \in 1..Len(RepoFind(rows)) : RepoFind(rows)[i].id = id}

\* Row r carries the value of every property of `fields` that body p names.
Carries(r, p, fields) == \A f \in fields : Has(p, f) => r[f] = p[f][1]

\* C1: every create(p), whatever subset of the properties p carries, succeeds,
\* adds exactly one record, and a list() that follows shows exactly one record
\* with p's fields under an id that no stored record held before.
C1_CreateAddsFreshRecord ==
  [][last'.op = "create" =>
       /\ last'.status = "ok"
       /\ Cardinality(store') = Cardinality(store) + 1
       /\ last'.rid \notin IdsOf(store)
       /\ Cardinality({i \in ListedAt(store', last'.rid) :
                         Carries(RepoFind(store')[i], last'.p, Columns)}) = 1]_vars

\* C2: no two stored records ever share an id, and no create or update step
\* changes the id of a stored record (every id stored before the step is
\* still stored after it), a body that carries an id included.
C2_IdUniqueAndImmutable ==
  [][/\ \A r1, r2 \in store' : r1.id = r2.id => r1 = r2
     /\ last'.op \in {"create", "updateWrite"} => IdsOf(store) \subseteq IdsOf(store')]_vars

\* C3: update(id, p) on a stored id, run without interference, raises no
\* error, the list() that follows shows one record at id with every property
\* of p set to p's value, and the response is that record.
C3_UpdateThenList ==
  [][/\ (last'.op = "updateWrite" /\ last'.id \in IdsOf(store)) => last'.status = "ok"
     /\ (last'.op = "updateRead" /\ last.op = "updateWrite" /\ last.affected = 1) =>
          /\ Cardinality(ListedAt(store', last'.id)) = 1
          /\ \A i \in ListedAt(store', last'.id) :
               /\ Carries(RepoFind(store')[i], last.p, Fields)
               /\ last'.found = <<RepoFind(store')[i]>>]_vars

\* C4: the read step of an update takes no lock and never fails: whatever ran
\* since the write step, it answers without error, with an absent result when
\* no record has the id any more, and changes nothing in the store.
C4_ReadAfterRace ==
  [][last'.op = "updateRead" =>
       /\ last'.status = "ok"
       /\ store' = store
       /\ RowsWithId(store, last'.id) = {} => last'.found = <<>>
       /\ \A r \in RowsWithId(store, last'.id) : last'.found = <<r>>]_vars

\* C4, the interleaving: an update whose write matched a stored record is
\* still between its two steps when delete(id) has just removed the record,
\* so that the read finds nothing.
C4_DeleteBetweenSteps ==
  /\ last.op = "delete" /\ last.affected = 1 /\ last.status = "ok"
  /\ BagIn([id |-> last.id, affected |-> 1], pending)
  /\ RepoFindOne(store, last.id) = <<>>

C6_DeleteMissing ==
  [][last'.op = "delete" =>
       /\ last'.id \notin IdsOf(store) =>
            (last'.status = "ok" /\ last'.found = <<>> /\ store' = store)
       /\ (last.op = "delete" /\ last.id = last'.id) =>
            (last'.status = last.status /\ last'.found = last.found /\ store' = store)]_vars

\* C6: a delete of an id with no record has completed.
C6_DeletedMissing ==
  last.op = "delete" /\ last.affected = 0 /\ last.status = "ok"

\* C7: after delete(id) of a stored id, list() is the previous list without
\* the record at id: no record with that id, every other record as it was.
C7_DeleteThenList ==
  [][(last'.op = "delete" /\ last'.id \in IdsOf(store)) =>
       LET Other(r) == r.id # last'.id
       IN  /\ RepoFind(store') = SelectSeq(RepoFind(store), Other)
           /\ ListedAt(store', last'.id) = {}]_vars

\* C7: the one record ever created has been deleted and list() is empty.
C7_CreatedDeletedEmpty ==
  /\ last.op = "delete" /\ last.affected = 1 /\ last.id = 1
  /\ seq = 1 /\ RepoFind(store) = <<>>

\* C8: a create whose body carries no id and leaves out one of name,
\* description, quantity is accepted, stores the record as given and returns
\* it with its assigned id, which is 1 for the first record of the store.
C8_CreateWithoutRequiredFields ==
  [][(last'.op = "create" /\ ~Has(last'.p, "id")
        /\ \E f \in Columns : ~Has(last'.p, f)) =>
       /\ last'.status = "ok"
       /\ \E r \in store' \ store : r.id = last'.rid /\ Carries(r, last'.p, Columns)
       /\ (store = {} /\ seq = 0) => last'.rid = 1]_vars

\* C9: GET /items/{id} for a stored id answers with that item.
C9_GetOneRetrieves ==
  (last.op = "getOne" /\ last.id \in IdsOf(store)) =>
     (last.status = "ok" /\ last.found = RepoFindOne(store, last.id))

\* C10: update(id, p) leaves every record with another id as it was, and in
\* the record with that id changes no property that p does not name.
C10_UpdateFrame ==
  [][last'.op = "updateWrite" =>
       LET old    == RowsWithId(store, last'.id)
           others == store \ old
           new    == store' \ others
       IN  /\ others \subseteq store'
           /\ Cardinality(new) = Cardinality(old)
           /\ \A q \in new : \E r \in old :
                \A f \in Fields : ~Has(last'.p, f) => q[f] = r[f]]_vars

\* C10: update(id, {quantity: 5}) has been applied to a stored record while
\* another record is stored.
C10_PartialUpdateApplied ==
  /\ last.op = "updateWrite" /\ last.status = "ok" /\ last.affected = 1
  /\ last.p = [id |-> <<>>, name |-> <<>>, description |-> <<>>, quantity |-> <<5>>]
  /\ Cardinality(store) = 2
  /\ \E r \in store : r.id = last.id /\ r.quantity = 5
  /\ \E r \in store : r.id # last.id /\ r.quantity = 0

====
